---- MODULE Spec2Model ----
(***************************************************************************)
(* Flight-delay model (challenge/model.py) and its serving boundary        *)
(* (challenge/api.py).                                                     *)
(*                                                                         *)
(* A DataFrame is a record [columns, rows]: columns is the ordered         *)
(* sequence of column names, rows the sequence of rows, each a function    *)
(* from the column names to cell values.  Indicator cells are 0/1.         *)
(*                                                                         *)
(* Three specifications share the module:                                  *)
(*   SpecPre   preprocess on a records object (encoder, reconciler,        *)
(*             label deriver), called repeatedly in both modes;            *)
(*   SpecLife  construction (load chain), fit, predict, process restart;   *)
(*   SpecApi   the /predict endpoint in front of the model.                *)
(***************************************************************************)
EXTENDS Integers, Sequences, FiniteSets, TLC

VARIABLES
    data,        \* the records object handed to preprocess (mutated in place)
    srvFeat,     \* features returned by the last serving-mode call on data
    trnFeat,     \* features returned by the last target_column="delay" call
    last,        \* outcome of the last preprocess call
    localFile,   \* content of LOCAL_MODEL_PATH
    gcsBucket,   \* GCS_BUCKET (environment, read at import)
    remote,      \* what the remote store answers
    remoteInit,  \* the remote store's content when the model starts
    model,       \* DelayModel._model
    ctor,        \* outcome of the last construction
    fitted,      \* classifier of the latest fit call, None if that call raised
    fitOk,       \* a fit has returned normally on the current instance
    lifeLast,    \* outcome of the last fit / predict call
    request,     \* body of the /predict request being served
    response     \* response of post_predict, with the calls it made

preVars  == <<data, srvFeat, trnFeat, last>>
lifeVars == <<localFile, gcsBucket, remote, remoteInit, model, ctor, fitted,
              fitOk, lifeLast>>
apiVars  == <<request, response>>
vars     == <<data, srvFeat, trnFeat, last, localFile, gcsBucket, remote,
              remoteInit, model, ctor, fitted, fitOk, lifeLast, request,
              response>>

Null == "None"

(***************************************************************************)
(* Bounds                                                                  *)
(***************************************************************************)
MaxRows    == 2      \* rows of a batch handed to preprocess
MaxFlights == 2      \* flights of one /predict request

(***************************************************************************)
(* Program constants                                                       *)
(***************************************************************************)
THRESHOLD_IN_MINUTES == 15

top_10_features ==
    << "OPERA_Latin American Wings", "MES_7", "MES_10", "OPERA_Grupo LATAM",
       "MES_12", "TIPOVUELO_I", "MES_4", "MES_11", "OPERA_Sky Airline",
       "OPERA_Copa Air" >>

airlines ==
    << "Aerolineas Argentinas", "Aeromexico", "Air Canada", "Air France",
       "Alitalia", "American Airlines", "Austral", "Avianca",
       "British Airways", "Copa Air", "Delta Air", "Gol Trans", "Grupo LATAM",
       "Iberia", "JetSmart SPA", "K.L.M.", "Lacsa", "Latin American Wings",
       "Oceanair Linhas Aereas", "Plus Ultra Lineas Aereas", "Qantas Airways",
       "Sky Airline", "United Airlines" >>

flight_types == << "N", "I" >>

RequiredColumns == << "OPERA", "TIPOVUELO", "MES" >>

(***************************************************************************)
(* Sequence helpers                                                        *)
(***************************************************************************)
Range(s) == { s[i] : i \in 1..Len(s) }

IndexOf(s, x) == CHOOSE i \in 1..Len(s) : s[i] = x

Reverse(s) == [ i \in 1..Len(s) |-> s[Len(s) + 1 - i] ]

\* the elements of the finite set S of integers, ascending
RECURSIVE Ascending(_)
Ascending(S) ==
    IF S = {} THEN << >>
    ELSE LET m == CHOOSE x \in S : \A y \in S : x <= y
         IN  << m >> \o Ascending(S \ {m})

(***************************************************************************)
(* Feature encoder: pd.get_dummies(data[col], prefix=col)                  *)
(***************************************************************************)
\* str(value) as get_dummies formats it into the column name: MES cells are
\* integers, OPERA and TIPOVUELO cells are strings
StrOf(col, v) == IF col = "MES" THEN ToString(v) ELSE v

DummyName(col, v) == col \o "_" \o StrOf(col, v)

\* position of a category in the sorted order of its column's values:
\* integers by value, airline names and flight types by code point
SortKey(col, v) ==
    IF col = "MES" THEN v
    ELSE IF col = "OPERA" THEN IndexOf(airlines, v)
    ELSE IF v = "I" THEN 1 ELSE 2

\* one indicator column per distinct observed value, in sorted value order
get_dummies(df, col) ==
    LET n    == Len(df.rows)
        cats == { df.rows[i][col] : i \in 1..n }
        keys == Ascending({ SortKey(col, v) : v \in cats })
        catAt(k) == CHOOSE v \in cats : SortKey(col, v) = keys[k]
        names == [ k \in 1..Len(keys) |-> DummyName(col, catAt(k)) ]
    IN  [ columns |-> names,
          rows    |-> [ i \in 1..n |->
                          [ c \in Range(names) |->
                              IF c = DummyName(col, df.rows[i][col])
                              THEN 1 ELSE 0 ] ] ]

\* pd.concat([...], axis=1) of frames with the same rows and disjoint columns
ConcatColumns(a, b) ==
    [ columns |-> a.columns \o b.columns,
      rows    |-> [ i \in 1..Len(a.rows) |->
                      [ c \in Range(a.columns) \cup Range(b.columns) |->
                          IF c \in Range(a.columns) THEN a.rows[i][c]
                          ELSE b.rows[i][c] ] ] ]

\* df[name] = value (a scalar broadcast or a per-row sequence), in place:
\* an existing column is overwritten, a new one is appended
SetColumn(df, name, cells) ==
    [ columns |-> IF name \in Range(df.columns) THEN df.columns
                  ELSE Append(df.columns, name),
      rows    |-> [ i \in 1..Len(df.rows) |->
                      [ c \in Range(df.columns) \cup {name} |->
                          IF c = name THEN cells[i] ELSE df.rows[i][c] ] ] ]

\* df[[names...]]: the named columns in the given order
SelectColumns(df, names) ==
    [ columns |-> names,
      rows    |-> [ i \in 1..Len(df.rows) |->
                      [ c \in Range(names) |-> df.rows[i][c] ] ] ]

(***************************************************************************)
(* Schema reconciler: DelayModel._fill_missing_features                    *)
(***************************************************************************)
\* variant: the absent features are filled with 1 instead of 0
fill_missing_with_ones(features, order) ==
    LET missing == Range(top_10_features) \ Range(features.columns)
        present == Range(features.columns)
    IN  [ columns |-> features.columns
                        \o SelectSeq(order, LAMBDA f : f \in missing),
          rows    |-> [ i \in 1..Len(features.rows) |->
                          [ c \in present \cup missing |->
                              IF c \in missing THEN 1
                              ELSE features.rows[i][c] ] ] ]

\* missing_features = set(top_10_features) - set(features.columns), then
\* features[feature] = 0 for each of them.  Python iterates that set in an
\* unspecified order; order is one iteration order of the frozen names.
_fill_missing_features(features, order) ==
    LET missing == Range(top_10_features) \ Range(features.columns)
        present == Range(features.columns)
    IN  [ columns |-> features.columns
                        \o SelectSeq(order, LAMBDA f : f \in missing),
          rows    |-> [ i \in 1..Len(features.rows) |->
                          [ c \in present \cup missing |->
                              IF c \in missing THEN 0
                              ELSE features.rows[i][c] ] ] ]

\* the iteration orders of the set difference that the model explores
FillOrders == { top_10_features, Reverse(top_10_features) }

(***************************************************************************)
(* Label deriver: timestamps, _get_min_diff, _is_delayed                   *)
(*                                                                         *)
(* A timestamp cell is one of                                              *)
(*   [kind |-> "text", y, mo, d, h, mi, s]  a string "y-mo-d h:mi:s"       *)
(*   [kind |-> "garbage"]                   a string of another shape      *)
(*   [kind |-> "nan"]                       a missing value (float NaN)    *)
(***************************************************************************)
IsLeap(y) == (y % 4 = 0) /\ ((y % 100 # 0) \/ (y % 400 = 0))

DaysInMonth(y, mo) ==
    IF mo = 2 THEN (IF IsLeap(y) THEN 29 ELSE 28)
    ELSE IF mo \in {4, 6, 9, 11} THEN 30 ELSE 31

RECURSIVE DaysBeforeMonth(_, _)
DaysBeforeMonth(y, mo) ==
    IF mo = 1 THEN 0 ELSE DaysBeforeMonth(y, mo - 1) + DaysInMonth(y, mo - 1)

\* proleptic Gregorian ordinal of a date (day 1 is 0001-01-01)
Ordinal(y, mo, d) ==
    LET p == y - 1
    IN  p * 365 + (p \div 4) - (p \div 100) + (p \div 400)
        + DaysBeforeMonth(y, mo) + d

\* datetime.strptime(cell, DATE_FORMAT): a datetime, or the exception raised
strptime(cell) ==
    IF cell.kind = "nan" THEN [ exc |-> "TypeError" ]
    ELSE IF cell.kind = "garbage" THEN [ exc |-> "ValueError" ]
    ELSE IF /\ cell.y \in 1..9999
            /\ cell.mo \in 1..12
            /\ cell.d \in 1..DaysInMonth(cell.y, cell.mo)
            /\ cell.h \in 0..23
            /\ cell.mi \in 0..59
            /\ cell.s \in 0..59
         THEN [ exc |-> Null,
                ord |-> Ordinal(cell.y, cell.mo, cell.d),
                sec |-> cell.h * 3600 + cell.mi * 60 + cell.s ]
         ELSE [ exc |-> "ValueError" ]

\* a float: not-a-number, or the exact quotient num / den
NaN == [ nan |-> TRUE, num |-> 0, den |-> 1 ]

\* float comparison x > k for an integer k; every comparison with NaN is False
GreaterThan(x, k) == (~x.nan) /\ (x.num > k * x.den)

\* (fecha_o - fecha_i).total_seconds() / 60
MinutesBetween(o, i) ==
    [ nan |-> FALSE,
      num |-> (o.ord - i.ord) * 86400 + (o.sec - i.sec),
      den |-> 60 ]

\* variant: no try/except, a ValueError of strptime leaves the function
get_min_diff_uncaught(row) ==
    IF "Fecha-O" \notin DOMAIN row THEN [ exc |-> "KeyError", value |-> NaN ]
    ELSE LET o == strptime(row["Fecha-O"])
         IN  IF o.exc # Null THEN [ exc |-> o.exc, value |-> NaN ]
             ELSE IF "Fecha-I" \notin DOMAIN row
                  THEN [ exc |-> "KeyError", value |-> NaN ]
             ELSE LET i == strptime(row["Fecha-I"])
                  IN  IF i.exc # Null THEN [ exc |-> i.exc, value |-> NaN ]
                      ELSE [ exc |-> Null, value |-> MinutesBetween(o, i) ]

\* DelayModel._get_min_diff on one row: [exc, value]; ValueError is caught
\* and turned into NaN, every other exception leaves the function
_get_min_diff(row) ==
    IF "Fecha-O" \notin DOMAIN row THEN [ exc |-> "KeyError", value |-> NaN ]
    ELSE LET o == strptime(row["Fecha-O"])
         IN  IF o.exc = "ValueError" THEN [ exc |-> Null, value |-> NaN ]
             ELSE IF o.exc # Null THEN [ exc |-> o.exc, value |-> NaN ]
             ELSE IF "Fecha-I" \notin DOMAIN row
                  THEN [ exc |-> "KeyError", value |-> NaN ]
             ELSE LET i == strptime(row["Fecha-I"])
                  IN  IF i.exc = "ValueError" THEN [ exc |-> Null, value |-> NaN ]
                      ELSE IF i.exc # Null THEN [ exc |-> i.exc, value |-> NaN ]
                      ELSE [ exc |-> Null, value |-> MinutesBetween(o, i) ]

\* variant: the comparison is >= instead of >
DelayLabelAtLeast(md) ==
    IF (~md.nan) /\ (md.num >= THRESHOLD_IN_MINUTES * md.den) THEN 1 ELSE 0

\* np.where(min_diff > THRESHOLD_IN_MINUTES, 1, 0) for one cell
DelayLabel(md) == IF GreaterThan(md, THRESHOLD_IN_MINUTES) THEN 1 ELSE 0

\* variant: the rows whose min_diff is NaN are dropped from the caller's frame
is_delayed_dropping_nan(df) ==
    LET n    == Len(df.rows)
        r    == [ i \in 1..n |-> _get_min_diff(df.rows[i]) ]
        bad  == { i \in 1..n : r[i].exc # Null }
        full == [ columns |-> df.columns \o << "min_diff", "delay" >>,
                  rows    |-> [ i \in 1..n |->
                                  [ c \in Range(df.columns) \cup {"min_diff", "delay"} |->
                                      IF c = "min_diff" THEN r[i].value
                                      ELSE IF c = "delay" THEN DelayLabel(r[i].value)
                                      ELSE df.rows[i][c] ] ] ]
    IN  IF bad # {}
        THEN [ exc  |-> r[CHOOSE i \in bad : \A j \in bad : i <= j].exc,
               data |-> df ]
        ELSE [ exc  |-> Null,
               data |-> [ columns |-> IF "delay" \in Range(df.columns)
                                      THEN df.columns ELSE full.columns,
                          rows    |-> SelectSeq(full.rows,
                                         LAMBDA w : ~w["min_diff"].nan) ] ]

\* DelayModel._is_delayed: [exc, data].  data.apply stops at the first row
\* whose function call raises; otherwise min_diff and delay are written into
\* the caller's frame.
_is_delayed(df) ==
    LET n    == Len(df.rows)
        r    == [ i \in 1..n |-> _get_min_diff(df.rows[i]) ]
        bad  == { i \in 1..n : r[i].exc # Null }
    IN  IF bad # {}
        THEN [ exc  |-> r[CHOOSE i \in bad : \A j \in bad : i <= j].exc,
               data |-> df ]
        ELSE LET withDiff == SetColumn(df, "min_diff", [ i \in 1..n |-> r[i].value ])
             IN  [ exc  |-> Null,
                   data |-> SetColumn(withDiff, "delay",
                               [ i \in 1..n |-> DelayLabel(r[i].value) ]) ]

(***************************************************************************)
(* DelayModel.preprocess                                                   *)
(***************************************************************************)
NoFrame == [ columns |-> << >>, rows |-> << >> ]

\* [exc, features, target, data]: data is the caller's frame after the call
preprocess(df, target_column, order) ==
    IF ~(\A c \in Range(RequiredColumns) : c \in Range(df.columns))
    THEN [ exc |-> "ValueError", features |-> NoFrame, target |-> NoFrame,
           data |-> df ]
    ELSE
    LET encoded  == ConcatColumns(
                        ConcatColumns(get_dummies(df, "OPERA"),
                                      get_dummies(df, "TIPOVUELO")),
                        get_dummies(df, "MES"))
        filled   == _fill_missing_features(encoded, order)
        features == SelectColumns(filled, top_10_features)
    IN  IF target_column = Null
        THEN [ exc |-> Null, features |-> features, target |-> NoFrame,
               data |-> df ]
        ELSE LET d == _is_delayed(df)
             IN  IF d.exc # Null
                 THEN [ exc |-> d.exc, features |-> NoFrame,
                        target |-> NoFrame, data |-> d.data ]
                 ELSE IF target_column \notin Range(d.data.columns)
                 THEN [ exc |-> "KeyError", features |-> NoFrame,
                        target |-> NoFrame, data |-> d.data ]
                 ELSE [ exc |-> Null, features |-> features,
                        target |-> SelectColumns(d.data, << target_column >>),
                        data |-> d.data ]

(***************************************************************************)
(* Batches handed to preprocess                                            *)
(***************************************************************************)
Stamp(y, mo, d, h, mi, s) ==
    [ kind |-> "text", y |-> y, mo |-> mo, d |-> d, h |-> h, mi |-> mi, s |-> s ]

Garbage == [ kind |-> "garbage" ]
Missing == [ kind |-> "nan" ]

\* <<Fecha-I, Fecha-O>> pairs: exactly 15 minutes over the new year; one
\* second more than 15 minutes over the end of February; Fecha-O before
\* Fecha-I; month 13 in Fecha-O; Fecha-I not a timestamp; Fecha-O missing
TimePairs ==
    { << Stamp(2022, 12, 31, 23, 50, 0), Stamp(2023, 1, 1, 0, 5, 0) >>,
      << Stamp(2022, 2, 28, 23, 50, 0),  Stamp(2022, 3, 1, 0, 5, 1) >>,
      << Stamp(2022, 1, 1, 10, 20, 0),   Stamp(2022, 1, 1, 10, 0, 0) >>,
      << Stamp(2022, 1, 1, 10, 0, 0),    Stamp(2022, 13, 1, 10, 20, 0) >>,
      << Garbage,                        Stamp(2022, 1, 1, 10, 20, 0) >>,
      << Stamp(2022, 1, 1, 10, 0, 0),    Missing >> }

TrainingColumns == << "Fecha-I", "Fecha-O", "MES", "TIPOVUELO", "OPERA" >>
ServingColumns  == << "MES", "OPERA", "TIPOVUELO" >>
PartialColumns  == << "OPERA", "TIPOVUELO" >>

TrainingRow(o, t, m, p) ==
    [ c \in Range(TrainingColumns) |->
        IF c = "OPERA" THEN o ELSE IF c = "TIPOVUELO" THEN t
        ELSE IF c = "MES" THEN m ELSE IF c = "Fecha-I" THEN p[1] ELSE p[2] ]

ServingRow(o, t, m) ==
    [ c \in Range(ServingColumns) |->
        IF c = "OPERA" THEN o ELSE IF c = "TIPOVUELO" THEN t ELSE m ]

PartialRow(o, t) ==
    [ c \in Range(PartialColumns) |-> IF c = "OPERA" THEN o ELSE t ]

\* one row per timestamp pair; between them the rows carry frozen categories
\* of every column (Grupo LATAM, Copa Air, Sky Airline, I, 7, 10, 12) and
\* categories outside the frozen ten (Aerolineas Argentinas, N, 3)
TrainingRows ==
    LET p == [ k \in 1..6 |->
                CHOOSE q \in TimePairs :
                    \/ k = 1 /\ q[2] = Stamp(2023, 1, 1, 0, 5, 0)
                    \/ k = 2 /\ q[2] = Stamp(2022, 3, 1, 0, 5, 1)
                    \/ k = 3 /\ q[2] = Stamp(2022, 1, 1, 10, 0, 0)
                    \/ k = 4 /\ q[2] = Stamp(2022, 13, 1, 10, 20, 0)
                    \/ k = 5 /\ q[1] = Garbage
                    \/ k = 6 /\ q[2] = Missing ]
    IN  { TrainingRow("Grupo LATAM", "I", 7, p[1]),
          TrainingRow("Aerolineas Argentinas", "N", 3, p[2]),
          TrainingRow("Copa Air", "N", 12, p[3]),
          TrainingRow("Sky Airline", "I", 3, p[4]),
          TrainingRow("Aerolineas Argentinas", "I", 10, p[5]),
          TrainingRow("Grupo LATAM", "N", 3, p[6]) }

ServingRows ==
    { ServingRow("Grupo LATAM", "I", 7),
      ServingRow("Aerolineas Argentinas", "N", 3),
      ServingRow("Copa Air", "N", 12),
      ServingRow("Sky Airline", "I", 3),
      ServingRow("Aerolineas Argentinas", "I", 10) }

PartialRows == { PartialRow("Grupo LATAM", "I"), PartialRow("Copa Air", "N") }

Frames(columns, rowSet, least) ==
    { [ columns |-> columns, rows |-> r ] :
        r \in UNION { [ 1..n -> rowSet ] : n \in least..MaxRows } }

\* A batch with the timestamp columns has at least one row, and only
\* batches with rows are labeled: what data.apply(..., axis=1) returns for a
\* frame without rows, and with it whether assigning min_diff raises,
\* depends on the pandas version.
Batches ==
    Frames(TrainingColumns, TrainingRows, 1)
        \cup Frames(ServingColumns, ServingRows, 0)
        \cup Frames(PartialColumns, PartialRows, 0)

TargetColumns == { "delay", "MES", "label" }

(***************************************************************************)
(* SpecPre: preprocess called on one records object, in both modes         *)
(***************************************************************************)
NoCall == [ mode |-> "none", target_column |-> Null, exc |-> Null,
            features |-> NoFrame, target |-> NoFrame, input |-> NoFrame ]

NoBlob == [ access |-> "ok", blob |-> "absent" ]

NotConstructed ==
    [ outcome |-> "none", source |-> "none", consulted |-> FALSE, empty |-> FALSE ]

NoLifeCall == [ op |-> "none", arg |-> Null, exc |-> Null, out |-> Null ]

LifeIdle ==
    /\ localFile = "absent"
    /\ gcsBucket = Null
    /\ remote = NoBlob
    /\ remoteInit = NoBlob
    /\ model = Null
    /\ ctor = NotConstructed
    /\ fitted = Null
    /\ fitOk = FALSE
    /\ lifeLast = NoLifeCall

\* no response yet; calls lists the DelayModel methods the handler invoked
NoResponse == [ status |-> 0, calls |-> << >>, predict |-> << >> ]

ApiIdle ==
    /\ request = << >>
    /\ response = NoResponse

PreIdle ==
    /\ data = NoFrame
    /\ srvFeat = NoFrame
    /\ trnFeat = NoFrame
    /\ last = NoCall

InitPre ==
    /\ data \in Batches
    /\ srvFeat = NoFrame
    /\ trnFeat = NoFrame
    /\ last = NoCall
    /\ LifeIdle
    /\ ApiIdle

\* features = model.preprocess(data)
PreprocessServing ==
    \E order \in FillOrders :
        LET r == preprocess(data, Null, order)
        IN  /\ data' = r.data
            /\ srvFeat' = IF r.exc = Null THEN r.features ELSE srvFeat
            /\ last' = [ mode |-> "serving", target_column |-> Null,
                         exc |-> r.exc, features |-> r.features,
                         target |-> r.target, input |-> data ]
            /\ UNCHANGED << trnFeat, lifeVars, apiVars >>

\* features, target = model.preprocess(data, target_column=tc), on records
\* with at least one row
PreprocessTraining ==
    \E tc \in TargetColumns, order \in FillOrders :
        LET r == preprocess(data, tc, order)
        IN  /\ Len(data.rows) > 0
            /\ data' = r.data
            /\ trnFeat' = IF r.exc = Null /\ tc = "delay" THEN r.features
                          ELSE trnFeat
            /\ last' = [ mode |-> "training", target_column |-> tc,
                         exc |-> r.exc, features |-> r.features,
                         target |-> r.target, input |-> data ]
            /\ UNCHANGED << srvFeat, lifeVars, apiVars >>

NextPre == PreprocessServing \/ PreprocessTraining

SpecPre == InitPre /\ [][NextPre]_vars

(***************************************************************************)
(* Persistence: DelayModel.__init__, _load_model, _load_model_from_gcs     *)
(*                                                                         *)
(* localFile is "absent", "corrupt" (a file that does not unpickle) or the *)
(* classifier the file holds.  remote is [access, blob]: access says       *)
(* whether storage.Client() raises ("client_error"), blob.exists() raises  *)
(* ("exists_error") or both answer ("ok"); blob is "absent", "corrupt" or  *)
(* the classifier stored under GCS_MODEL_PATH.                             *)
(***************************************************************************)
\* truth value of GCS_BUCKET in `if GCS_BUCKET:`
Truthy(s) == s # Null /\ s # ""

\* [exc, model]: the client and the existence check run outside the try
\* block, only the read is guarded
_load_model_from_gcs(r) ==
    IF r.access = "client_error"
    THEN [ exc |-> "DefaultCredentialsError", model |-> Null ]
    ELSE IF r.access = "exists_error"
    THEN [ exc |-> "GoogleAPICallError", model |-> Null ]
    ELSE IF r.blob = "absent" THEN [ exc |-> Null, model |-> Null ]
    ELSE IF r.blob = "corrupt" THEN [ exc |-> Null, model |-> Null ]
    ELSE [ exc |-> Null, model |-> r.blob ]

\* variant: the remote store is tried before the local file
load_model_remote_first(file, bucket, r) ==
    IF Truthy(bucket) /\ r.access = "ok" /\ r.blob \notin {"absent", "corrupt"}
    THEN [ exc |-> Null, model |-> r.blob, source |-> "remote", consulted |-> TRUE ]
    ELSE IF file \notin {"absent", "corrupt"}
    THEN [ exc |-> Null, model |-> file, source |-> "local",
           consulted |-> Truthy(bucket) ]
    ELSE [ exc |-> Null, model |-> Null, source |-> "none",
           consulted |-> Truthy(bucket) ]

\* [exc, model, source, consulted]: consulted says whether the remote store
\* was asked
_load_model(file, bucket, r) ==
    IF file # "absent"
    THEN IF file = "corrupt"
         THEN [ exc |-> Null, model |-> Null, source |-> "none",
                consulted |-> FALSE ]
         ELSE [ exc |-> Null, model |-> file, source |-> "local",
                consulted |-> FALSE ]
    ELSE IF Truthy(bucket)
    THEN LET g == _load_model_from_gcs(r)
         IN  [ exc |-> g.exc, model |-> g.model,
               source |-> IF g.model # Null THEN "remote" ELSE "none",
               consulted |-> TRUE ]
    ELSE [ exc |-> Null, model |-> Null, source |-> "none", consulted |-> FALSE ]

(***************************************************************************)
(* DelayModel.fit and DelayModel.predict                                   *)
(*                                                                         *)
(* A training set is known by the label counts of its training partition;  *)
(* the classifier trained on it is named after it.                         *)
(***************************************************************************)
DataSets == { "A", "B", "Z" }

\* <<n_y0, n_y1>> of y_train after train_test_split; Z has no delayed flight
TrainCounts(ds) ==
    IF ds = "A" THEN << 2, 1 >> ELSE IF ds = "B" THEN << 1, 1 >> ELSE << 3, 0 >>

\* xgb.XGBClassifier(random_state=1, learning_rate=0.01,
\* scale_pos_weight=n_y0 / n_y1).fit(x_train, y_train)
Train(ds) == "xgb:" \o ds

\* what opening and writing LOCAL_MODEL_PATH does
SaveOutcomes == { "ok", "open_error", "dump_error" }

\* variant: the blob is written before the new classifier is assigned, so the
\* file holds the previous one
fit_saving_previous(m, file, ds, io) ==
    IF TrainCounts(ds)[2] = 0
    THEN [ exc |-> "ZeroDivisionError", model |-> m, file |-> file ]
    ELSE IF io = "open_error"
    THEN [ exc |-> "OSError", model |-> Train(ds), file |-> file ]
    ELSE IF io = "dump_error"
    THEN [ exc |-> "OSError", model |-> Train(ds), file |-> "corrupt" ]
    ELSE [ exc |-> Null, model |-> Train(ds),
           file |-> IF m = Null THEN "corrupt" ELSE m ]

\* [exc, model, file]: the instance's classifier and the local file after the
\* call.  scale = n_y0 / n_y1 divides by zero when the training partition has
\* no delayed flight; self._model is assigned before the file is opened.
fit(m, file, ds, io) ==
    IF TrainCounts(ds)[2] = 0
    THEN [ exc |-> "ZeroDivisionError", model |-> m, file |-> file ]
    ELSE IF io = "open_error"
    THEN [ exc |-> "OSError", model |-> Train(ds), file |-> file ]
    ELSE IF io = "dump_error"
    THEN [ exc |-> "OSError", model |-> Train(ds), file |-> "corrupt" ]
    ELSE [ exc |-> Null, model |-> Train(ds), file |-> Train(ds) ]

\* [exc, out]: self._model.predict(features).tolist(); None has no predict
predict(m, labels) ==
    IF m = Null THEN [ exc |-> "AttributeError", out |-> << >> ]
    ELSE [ exc |-> Null, out |-> labels ]

(***************************************************************************)
(* SpecLife: processes constructing the model, fitting and predicting      *)
(***************************************************************************)
LocalStates  == { "absent", "corrupt", "pkl:local" }
BucketNames  == { Null, "", "bucket" }
RemoteStates ==
    [ access : { "ok", "client_error", "exists_error" },
      blob   : { "absent", "corrupt", "pkl:remote" } ]

InitLife ==
    /\ localFile \in LocalStates
    /\ gcsBucket \in BucketNames
    /\ remote \in RemoteStates
    /\ remoteInit = remote
    /\ model = Null
    /\ ctor = NotConstructed
    /\ fitted = Null
    /\ fitOk = FALSE
    /\ lifeLast = NoLifeCall
    /\ PreIdle
    /\ ApiIdle

\* neither a local file nor a remote blob that construction could use
NothingPersisted ==
    localFile = "absent" /\ (~Truthy(gcsBucket) \/ remote.blob = "absent")

\* a process starts: DelayModel()
Construct ==
    LET r == _load_model(localFile, gcsBucket, remote)
    IN  /\ model' = r.model
        /\ ctor' = [ outcome   |-> IF r.exc = Null THEN "ok" ELSE "raised",
                     source    |-> r.source,
                     consulted |-> r.consulted,
                     empty     |-> NothingPersisted ]
        /\ fitOk' = FALSE
        /\ lifeLast' = [ op |-> "construct", arg |-> Null, exc |-> r.exc,
                         out |-> Null ]
        /\ UNCHANGED << localFile, gcsBucket, remote, remoteInit, fitted,
                        preVars, apiVars >>

\* model.fit(features, target) on the constructed instance
Fit ==
    /\ ctor.outcome = "ok"
    /\ \E ds \in DataSets, io \in SaveOutcomes :
          LET r == fit(model, localFile, ds, io)
          IN  /\ model' = r.model
              /\ localFile' = r.file
              /\ fitted' = IF r.exc = Null THEN r.model ELSE Null
              /\ fitOk' = (fitOk \/ r.exc = Null)
              /\ lifeLast' = [ op |-> "fit", arg |-> ds, exc |-> r.exc,
                               out |-> Null ]
              /\ UNCHANGED << gcsBucket, remote, remoteInit, ctor, preVars,
                              apiVars >>

\* model.predict(features) on the constructed instance; the classifier is a
\* black box, any 0/1 label per row may come back
Predict ==
    /\ ctor.outcome = "ok"
    /\ \E labels \in UNION { [ 1..n -> {0, 1} ] : n \in 1..MaxRows } :
          LET r == predict(model, labels)
          IN  /\ lifeLast' = [ op |-> "predict", arg |-> Null, exc |-> r.exc,
                               out |-> r.out ]
              /\ UNCHANGED << localFile, gcsBucket, remote, remoteInit, model,
                              ctor, fitted, fitOk, preVars, apiVars >>

NextLife == Construct \/ Fit \/ Predict

SpecLife == InitLife /\ [][NextLife]_vars

(***************************************************************************)
(* Serving boundary: FlightData validators and post_predict (api.py)       *)
(*                                                                         *)
(* An HTTPException raised inside a validator leaves request parsing and   *)
(* is answered by the framework with its status code; the handler body is  *)
(* not entered.                                                            *)
(***************************************************************************)
\* variant: range(1, 14)
validate_mes_to_13(value) == value \in 1..13

\* value in range(1, 13)
validate_mes(value) == value \in 1..12

validate_opera(value) == value \in Range(airlines)

validate_tipo_vuelo(value) == value \in Range(flight_types)

\* status of parsing one flight: the validators run in field order MES,
\* OPERA, TIPOVUELO and the first failure raises HTTPException(400)
FlightData(f) ==
    IF ~validate_mes(f["MES"]) THEN 400
    ELSE IF ~validate_opera(f["OPERA"]) THEN 400
    ELSE IF ~validate_tipo_vuelo(f["TIPOVUELO"]) THEN 400
    ELSE 200

\* status of parsing the request body: the flights are parsed in list order
PredictionRequest(flights) ==
    IF \E i \in 1..Len(flights) : FlightData(flights[i]) # 200 THEN 400 ELSE 200

\* pd.DataFrame([flight.dict() for flight in request.flights]): an empty list
\* gives a frame without columns
FlightsFrame(flights) ==
    [ columns |-> IF flights = << >> THEN << >> ELSE ServingColumns,
      rows    |-> flights ]

\* the handler body: every exception becomes HTTPException(500)
post_predict(m, flights, labels, order) ==
    LET p == preprocess(FlightsFrame(flights), Null, order)
        q == predict(m, labels)
    IN  IF p.exc # Null
        THEN [ status |-> 500, calls |-> << "preprocess" >>, predict |-> << >> ]
        ELSE IF q.exc # Null
        THEN [ status |-> 500, calls |-> << "preprocess", "predict" >>,
               predict |-> << >> ]
        ELSE [ status |-> 200, calls |-> << "preprocess", "predict" >>,
               predict |-> q.out ]

(***************************************************************************)
(* SpecApi: one /predict request against the module-level delay_model      *)
(***************************************************************************)
FlightPool ==
    [ MES       : { 7, 3, 13 },
      OPERA     : { "Grupo LATAM", "Aerolineas Argentinas", "Unknown Airline" },
      TIPOVUELO : { "I", "N", "X" } ]

Requests == UNION { [ 1..n -> FlightPool ] : n \in 0..MaxFlights }

\* delay_model = DelayModel() has run at import, with or without a local blob
InitApi ==
    /\ localFile \in { "absent", "pkl:local" }
    /\ gcsBucket = Null
    /\ remote = NoBlob
    /\ remoteInit = NoBlob
    /\ model = _load_model(localFile, gcsBucket, remote).model
    /\ ctor = [ outcome |-> "ok",
                source |-> _load_model(localFile, gcsBucket, remote).source,
                consulted |-> FALSE, empty |-> localFile = "absent" ]
    /\ fitted = Null
    /\ fitOk = FALSE
    /\ lifeLast = NoLifeCall
    /\ request \in Requests
    /\ response = NoResponse
    /\ PreIdle

\* the request body fails validation: the framework answers, the handler
\* does not run
Reject ==
    /\ response.status = 0
    /\ PredictionRequest(request) # 200
    /\ response' = [ status |-> PredictionRequest(request), calls |-> << >>,
                     predict |-> << >> ]
    /\ UNCHANGED << request, lifeVars, preVars >>

\* the request body is valid: post_predict runs
Serve ==
    /\ response.status = 0
    /\ PredictionRequest(request) = 200
    /\ \E labels \in [ 1..Len(request) -> {0, 1} ], order \in FillOrders :
          response' = post_predict(model, request, labels, order)
    /\ UNCHANGED << request, lifeVars, preVars >>

NextApi == Reject \/ Serve

SpecApi == InitApi /\ [][NextApi]_vars

(***************************************************************************)
(* Properties of preprocess (SpecPre)                                      *)
(***************************************************************************)
HasColumns(df, names) == \A c \in names : c \in Range(df.columns)

\* the category each frozen feature stands for, in the frozen order
FrozenCategory ==
    << << "OPERA", "Latin American Wings" >>, << "MES", 7 >>, << "MES", 10 >>,
       << "OPERA", "Grupo LATAM" >>, << "MES", 12 >>, << "TIPOVUELO", "I" >>,
       << "MES", 4 >>, << "MES", 11 >>, << "OPERA", "Sky Airline" >>,
       << "OPERA", "Copa Air" >> >>

Indicator(row, k) ==
    IF row[FrozenCategory[k][1]] = FrozenCategory[k][2] THEN 1 ELSE 0

Parses(cell) == strptime(cell).exc = Null

BothParse(row) == Parses(row["Fecha-O"]) /\ Parses(row["Fecha-I"])

\* seconds from Fecha-I to Fecha-O of a row whose timestamps both parse
SecondsLate(row) ==
    LET o == strptime(row["Fecha-O"])
        i == strptime(row["Fecha-I"])
    IN  (o.ord - i.ord) * 24 * 3600 + (o.sec - i.sec)

TrainingCall(tc) == last.mode = "training" /\ last.target_column = tc

\* C1: a serving-mode call on a batch that has the OPERA, TIPOVUELO and MES
\* columns returns, without raising, a table with one row per input record
\* and exactly the ten frozen columns in the frozen order; each cell is 1
\* when the record has that column's category and 0 otherwise, so a frozen
\* category absent from the batch gives an all-zero column and no column
\* outside the frozen ten survives.
C1_SchemaParity ==
    (last.mode = "serving" /\ HasColumns(last.input, Range(RequiredColumns))) =>
        /\ last.exc = Null
        /\ last.features.columns = top_10_features
        /\ Len(last.features.rows) = Len(last.input.rows)
        /\ \A i \in 1..Len(last.input.rows) :
              /\ DOMAIN last.features.rows[i] = Range(top_10_features)
              /\ \A k \in 1..Len(top_10_features) :
                    last.features.rows[i][top_10_features[k]]
                        = Indicator(last.input.rows[i], k)

\* a serving call on a batch holding a record with a frozen category next to
\* a record with none of the frozen categories
C1_Witness ==
    /\ last.mode = "serving"
    /\ last.exc = Null
    /\ \E i, j \in 1..Len(last.features.rows) :
          /\ \A c \in Range(top_10_features) : last.features.rows[i][c] = 0
          /\ \E c \in Range(top_10_features) : last.features.rows[j][c] = 1

\* C2: the feature table of a serving-mode call and the feature table of a
\* target_column="delay" call on the same records object are identical,
\* whichever call came first and however often the calls were repeated.
C2_TrainServeConsistency ==
    (srvFeat # NoFrame /\ trnFeat # NoFrame) => srvFeat = trnFeat

\* a serving call made after a training call has written min_diff and delay
\* into the records object
C2_Witness ==
    /\ last.mode = "serving"
    /\ last.exc = Null
    /\ trnFeat # NoFrame
    /\ HasColumns(last.input, {"min_diff", "delay"})
    /\ Len(last.input.rows) > 1

\* C3: in the target returned for target_column="delay", a row whose Fecha-O
\* and Fecha-I both parse has label 1 exactly when Fecha-O is more than 15
\* minutes after Fecha-I, and 0 otherwise.
C3_LabelRule ==
    (TrainingCall("delay") /\ last.exc = Null) =>
        \A i \in 1..Len(last.input.rows) :
            BothParse(last.input.rows[i]) =>
                last.target.rows[i]["delay"]
                    = (IF SecondsLate(last.input.rows[i]) > 15 * 60 THEN 1 ELSE 0)

\* a labeled batch with a row exactly 15 minutes late (label 0) and a row 15
\* minutes and one second late (label 1)
C3_Witness ==
    /\ TrainingCall("delay")
    /\ last.exc = Null
    /\ \E i, j \in 1..Len(last.input.rows) :
          /\ BothParse(last.input.rows[i]) /\ BothParse(last.input.rows[j])
          /\ SecondsLate(last.input.rows[i]) = 15 * 60
          /\ last.target.rows[i]["delay"] = 0
          /\ SecondsLate(last.input.rows[j]) = 15 * 60 + 1
          /\ last.target.rows[j]["delay"] = 1

\* C4: label derivation never raises: a target_column="delay" call on records
\* with the required columns and both timestamp columns returns normally, and
\* every row whose Fecha-O or Fecha-I cannot be parsed has label 0.
C4_NeverRaises ==
    ( /\ TrainingCall("delay")
      /\ HasColumns(last.input, Range(RequiredColumns) \cup {"Fecha-O", "Fecha-I"}) )
    =>  /\ last.exc = Null
        /\ Len(last.target.rows) = Len(last.input.rows)
        /\ \A i \in 1..Len(last.input.rows) :
              ~BothParse(last.input.rows[i]) => last.target.rows[i]["delay"] = 0

\* records that hold the required columns and a timestamp string in both
\* Fecha-O and Fecha-I of every row
HasBothTimestamps(df) ==
    /\ HasColumns(df, Range(RequiredColumns) \cup {"Fecha-O", "Fecha-I"})
    /\ \A i \in 1..Len(df.rows) :
          df.rows[i]["Fecha-O"].kind # "nan" /\ df.rows[i]["Fecha-I"].kind # "nan"

ReturnsLabelTarget ==
    /\ last.exc = Null
    /\ last.features.columns = top_10_features
    /\ Len(last.target.columns) = 1
    /\ Len(last.target.rows) = Len(last.input.rows)
    /\ \A i \in 1..Len(last.input.rows) :
          \A c \in DOMAIN last.target.rows[i] : last.target.rows[i][c] \in {0, 1}

Loadable(blob) == blob \notin { "absent", "corrupt" }

\* C6: on an instance constructed with no local and no remote persisted
\* state, every predict call made before the first fit that returned normally
\* fails with the error of a missing classifier (not preprocess's ValueError)
\* and returns nothing; once a fit has returned normally, predict returns a
\* result.
C6_PredictNeedsFit ==
    (lifeLast.op = "predict" /\ ctor.empty) =>
        IF fitOk
        THEN lifeLast.exc = Null /\ Len(lifeLast.out) > 0
        ELSE /\ lifeLast.exc = "AttributeError"
             /\ lifeLast.exc # "ValueError"
             /\ lifeLast.out = << >>

C8_LoadFailureIsAbsence ==
    lifeLast.op = "construct" =>
        /\ ctor.outcome = "ok"
        /\ (localFile = "corrupt" /\ Truthy(gcsBucket)) => ctor.consulted
        /\ ( /\ ctor.consulted
             /\ (remote.access # "ok" \/ remote.blob = "corrupt") )
              => model = Null

\* C9: after a fit that returned normally the owned classifier and the local
\* blob are both the classifier just trained; a model constructed after it
\* loads that classifier from the local file; the remote store is never
\* written.
C9_FitPersists ==
    /\ (lifeLast.op = "fit" /\ lifeLast.exc = Null)
          => /\ model = Train(lifeLast.arg)
             /\ localFile = Train(lifeLast.arg)
             /\ fitted = Train(lifeLast.arg)
    /\ (lifeLast.op = "construct" /\ fitted # Null)
          => /\ ctor.outcome = "ok"
             /\ ctor.source = "local"
             /\ model = fitted
    /\ remote = remoteInit

\* a restart that loaded the fitted classifier where the first construction
\* would have found another local blob and a remote blob
C9_Witness ==
    /\ lifeLast.op = "construct"
    /\ fitted = Train("B")
    /\ model = Train("B")
    /\ Truthy(gcsBucket)
    /\ remote.blob = "pkl:remote"

(***************************************************************************)
(* Properties of the serving boundary (SpecApi)                            *)
(***************************************************************************)
OutOfContract(f) ==
    \/ f["MES"] \notin 1..12
    \/ f["OPERA"] \notin Range(airlines)
    \/ f["TIPOVUELO"] \notin { "N", "I" }

\* C10: a request with at least one flight whose MES is outside 1..12, whose
\* OPERA is not one of the 23 airlines or whose TIPOVUELO is not N or I is
\* answered with a client error (4xx), and neither preprocess nor predict of
\* the model is invoked for it.
C10_ValidationRejection ==
    ( /\ response.status # 0
      /\ \E i \in 1..Len(request) : OutOfContract(request[i]) )
    =>  /\ response.status \in 400..499
        /\ response.calls = << >>

\* a rejected request whose first flight is valid and whose second is not
C10_Witness ==
    /\ response.status = 400
    /\ Len(request) = 2
    /\ ~OutOfContract(request[1])
    /\ OutOfContract(request[2])

====
